---- MODULE Spec2Model ----
(***************************************************************************)
(* The contract-analysis workflow: the plain pipeline of graph.py          *)
(* (parser, clause_extractor, risk_assessor, summariser, error_handler)    *)
(* and the tool-calling pipeline of graph_with_tools.py (parser_agent and  *)
(* parser_tools in a loop, then the same three steps).                     *)
(*                                                                         *)
(* A Python dict is a function whose DOMAIN is its set of keys, so a key   *)
(* that was never written is really absent.  Optional[X] is a sequence of  *)
(* length 0 (None) or 1 (the value).  A str is a sequence of tokens, and    *)
(* len() counts tokens.                                                    *)
(***************************************************************************)
EXTENDS Integers, Sequences, FiniteSets, TLC

VARIABLES
    pipeline,   \* "main" (graph.py) or "tools" (graph_with_tools.py)
    env,        \* the file on disk and the installed libraries
    state,      \* the ContractAnalysisState of the run
    pc,         \* the node to execute next, "__end__", or "raised"
    trace,      \* the nodes executed so far, in order
    llm_log,    \* the generation-client calls made so far (caller names)
    tool_log    \* the tool calls executed so far, in order

vars == <<pipeline, env, state, pc, trace, llm_log, tool_log>>

---------------------------------------------------------------------------
(* Bounds of the model *)

MaxPages == 1
MaxToolCalls == 2
MaxCallsPerResponse == 2
MaxClauses == 1

---------------------------------------------------------------------------
(* Values *)

None == <<>>
Some(x) == <<x>>
IsNone(o) == o = None

END == "__end__"
RAISED == "raised"

Get(d, k, default) == IF k \in DOMAIN d THEN d[k] ELSE default

\* Python truthiness of an Optional[str]: None and "" are both falsy.
TruthyText(o) == o # None /\ o[1] # <<>>

\* Truthiness by contents: an object with an empty clause list is falsy.
TruthyObj_by_contents(o) ==
    o # None /\ ("clauses" \in DOMAIN o[1] => o[1].clauses # <<>>)

\* Python truthiness of an Optional[pydantic object]: only None is falsy.
TruthyObj(o) == o # None

WhiteSpace == {" ", "\n", "\n\n"}

RECURSIVE LStrip(_)
LStrip(t) ==
    IF t = <<>> THEN <<>>
    ELSE IF Head(t) \in WhiteSpace THEN LStrip(Tail(t))
    ELSE t

RECURSIVE RStrip(_)
RStrip(t) ==
    IF t = <<>> THEN <<>>
    ELSE IF t[Len(t)] \in WhiteSpace THEN RStrip(SubSeq(t, 1, Len(t) - 1))
    ELSE t

\* str.strip()
Strip(t) == RStrip(LStrip(t))

\* sep.join(parts)
RECURSIVE Join(_, _)
Join(sep, parts) ==
    IF parts = <<>> THEN <<>>
    ELSE IF Len(parts) = 1 THEN parts[1]
    ELSE parts[1] \o sep \o Join(sep, Tail(parts))

---------------------------------------------------------------------------
(* The environment: one file on disk and the optional libraries.           *)
(* A page has the text PyMuPDF can select and the text OCR reads off its   *)
(* image; a scanned page has no selectable text.                           *)

PageKinds ==
    { [text |-> <<"a">>, scan |-> <<"a">>],
      [text |-> <<>>,    scan |-> <<"a">>],
      [text |-> <<" ">>, scan |-> <<>>] }

RECURSIVE SeqsUpTo(_, _)
SeqsUpTo(S, n) ==
    IF n = 0 THEN {<<>>}
    ELSE LET shorter == SeqsUpTo(S, n - 1)
         IN  shorter \cup {Append(q, x) : q \in shorter, x \in S}

Documents == SeqsUpTo(PageKinds, MaxPages)

FilePaths == {"contract.pdf", "scan.png"}

\* Path(file_path).suffix.lower()
Suffix(path) == IF path = "contract.pdf" THEN ".pdf" ELSE ".png"

Envs ==
    { [path |-> p, file |-> f, pages |-> d, docx_installed |-> dx, ocr_installed |-> oc,
       handle_tool_errors |-> h] :
        p \in FilePaths, f \in {"missing", "corrupt", "ok"}, d \in Documents,
        dx \in BOOLEAN, oc \in BOOLEAN, h \in BOOLEAN }

\* A file that cannot be opened has no pages to speak of; how the ToolNode
\* treats a raising tool only shows when a tool can raise.
WellFormedEnv(e) ==
    /\ e.file # "ok" => e.pages = <<>>
    /\ e.file = "ok" => e.handle_tool_errors

\* Messages of the exceptions the collaborators raise.
ExcTimeout == <<"timeout">>
ExcFitz == <<"cannot open file">>

PageHeader(i) == <<"--- Page ", ToString(i), " ---", "\n">>

\* tools/pdf_parser.py parse_pdf: the outcome is a raised exception
\* (exc # "") or the returned dict.
NoReturn == [full_text |-> <<>>, metadata |-> [filename |-> "", page_count |-> 0]]

pdf_parser_parse_pdf(pdf_path, e) ==
    IF e.file = "missing"
    THEN [exc |-> "FileNotFoundError", msg |-> <<"PDF not found: ", pdf_path>>,
          ret |-> NoReturn]
    ELSE IF e.file = "corrupt"
    THEN [exc |-> "Exception", msg |-> ExcFitz, ret |-> NoReturn]
    ELSE [exc |-> "", msg |-> <<>>,
          ret |-> [full_text |->
                       Join(<<"\n\n">>,
                            [i \in 1..Len(e.pages) |-> PageHeader(i) \o e.pages[i].text]),
                   metadata |-> [filename |-> pdf_path,
                                 page_count |-> Len(e.pages)]]]

---------------------------------------------------------------------------
(* The tools of the parse sub-loop (agents/parser_with_tools.py).  A tool  *)
(* returns a dict or raises; exc # "" is the raised exception.             *)

ToolNames == {"parse_pdf", "parse_docx", "ocr_scanned_document"}

ToolReturn(d) == [exc |-> "", msg |-> <<>>, ret |-> d]
ToolRaise(m) == [exc |-> "Exception", msg |-> m, ret |-> [error |-> <<>>]]

parse_pdf(file_path, e) ==
    IF e.file # "ok" THEN ToolRaise(ExcFitz)
    ELSE ToolReturn(
            [full_text |->
                 Join(<<"\n\n">>,
                      [i \in 1..Len(e.pages) |-> PageHeader(i) \o e.pages[i].text]),
             page_count |-> Len(e.pages),
             method |-> "pdf_text_extraction"])

NonBlank(page) == Strip(page.text) # <<>>

parse_docx(file_path, e) ==
    IF ~e.docx_installed
    THEN ToolReturn([error |-> <<"python-docx not installed. Run: pip install python-docx">>])
    ELSE IF e.file # "ok" THEN ToolRaise(ExcFitz)
    ELSE LET paragraphs == SelectSeq(e.pages, NonBlank)
         IN  ToolReturn(
                [full_text |->
                     Join(<<"\n\n">>, [i \in 1..Len(paragraphs) |-> paragraphs[i].text]),
                 paragraph_count |-> Len(paragraphs),
                 method |-> "docx_extraction"])

ocr_scanned_document(file_path, e) ==
    IF ~e.ocr_installed
    THEN ToolReturn([error |-> <<"OCR dependencies not installed. ",
                                 "Run: pip install pytesseract pillow">>])
    ELSE IF e.file # "ok" THEN ToolRaise(ExcFitz)
    ELSE IF Suffix(file_path) = ".pdf"
    THEN ToolReturn(
            [full_text |->
                 Join(<<"\n\n">>,
                      [i \in 1..Len(e.pages) |-> PageHeader(i) \o e.pages[i].scan]),
             method |-> "ocr"])
    ELSE ToolReturn(
            [full_text |-> IF e.pages = <<>> THEN <<>> ELSE e.pages[1].scan,
             method |-> "ocr"])

\* PARSER_TOOLS, looked up by name
PARSER_TOOLS(name, file_path, e) ==
    IF name = "parse_pdf" THEN parse_pdf(file_path, e)
    ELSE IF name = "parse_docx" THEN parse_docx(file_path, e)
    ELSE ocr_scanned_document(file_path, e)

---------------------------------------------------------------------------
(* The generation client.  Every call either returns or raises; the        *)
(* outcome is an input of the step that makes the call.                    *)

Clause == [clause_type |-> "termination", title |-> "Termination",
           text |-> <<"a">>, section_reference |-> "Section 1"]

ExtractionResults ==
    { [clauses |-> c, contract_type |-> "NDA", parties |-> <<>>, effective_date |-> None] :
        c \in SeqsUpTo({Clause}, MaxClauses) }

RiskResults ==
    { [overall_risk |-> r, clause_assessments |-> <<>>, missing_clauses |-> <<>>,
       summary_of_concerns |-> <<"none">>] : r \in {"low", "high"} }

SummaryTexts == {<<>>, <<"summary">>}

AnalysisTexts == {<<"looks like a contract">>}

\* Outcomes of a plain or structured call: value is the returned object.
LlmOutcomes(values) ==
    {[ok |-> TRUE, value |-> v, msg |-> <<>>] : v \in values}
        \cup {[ok |-> FALSE, value |-> CHOOSE v \in values : TRUE, msg |-> ExcTimeout]}

\* Outcomes of a tool-calling call: the names of the requested tools.
ToolRequests == SeqsUpTo(ToolNames, MaxCallsPerResponse)

LlmToolOutcomes ==
    {[ok |-> TRUE, tool_names |-> q, content |-> <<"done">>, msg |-> <<>>] : q \in ToolRequests}
        \cup {[ok |-> FALSE, tool_names |-> <<>>, content |-> <<>>, msg |-> ExcTimeout]}

\* What a node function gives back: the patch it returns, or an exception
\* that leaves the node, and the calls it made to the generation client and
\* to the tools.
Return(patch, calls) == [raised |-> FALSE, patch |-> patch, llm |-> calls, tools |-> <<>>]
Raise(calls) == [raised |-> TRUE, patch |-> <<>>, llm |-> calls, tools |-> <<>>]

LlmCall(caller, input) == [caller |-> caller, input |-> input]

---------------------------------------------------------------------------
(* agents/parser.py *)

\* text[:n]
Take(t, n) == SubSeq(t, 1, IF Len(t) < n THEN Len(t) ELSE n)

PreviewChars == 3000

parser_agent(s, e, llm) ==
    IF "file_path" \notin DOMAIN s
    THEN Raise(<<>>)                               \* KeyError, before the try
    ELSE
    LET result == pdf_parser_parse_pdf(s.file_path, e)
        full_text == result.ret.full_text
        metadata == result.ret.metadata
        call == LlmCall("parser", Take(full_text, PreviewChars))
    IN  IF result.exc = "FileNotFoundError"
        THEN Return([current_step |-> "error",
                     error_message |-> Some(result.msg)], <<>>)
        ELSE IF result.exc # ""
        THEN Return([current_step |-> "error",
                     error_message |-> Some(<<"Parser failed: ">> \o result.msg)], <<>>)
        ELSE IF Strip(full_text) = <<>>
        THEN Return([parsed_text |-> None,
                     document_metadata |-> Some(metadata),
                     current_step |-> "error",
                     error_message |->
                         Some(<<"PDF appears to be empty or image-only (OCR not implemented).">>)],
                    <<>>)
        ELSE IF ~llm.ok
        THEN Return([current_step |-> "error",
                     error_message |-> Some(<<"Parser failed: ">> \o llm.msg)], <<call>>)
        ELSE Return([parsed_text |-> Some(full_text),
                     document_metadata |->
                         Some([filename |-> metadata.filename,
                               page_count |-> metadata.page_count,
                               parser_analysis |-> llm.value]),
                     current_step |-> "extract"], <<call>>)

---------------------------------------------------------------------------
(* agents/parser_with_tools.py *)

AIMessage(content, tool_calls) ==
    [type |-> "ai", content |-> content, tool_calls |-> tool_calls]

ToolMessage(content, name, tool_call_id) ==
    [type |-> "tool", content |-> content, name |-> name, tool_call_id |-> tool_call_id]

IsToolMessage(msg) == msg.type = "tool"

\* The seed prompt of the first invocation.
SeedMessages(file_path) ==
    << [type |-> "system", content |-> <<"MULTI_FORMAT_PARSER_PROMPT">>],
       [type |-> "human",
        content |-> <<"Please extract text from this file: ", file_path, "\n",
                      "File extension: ", Suffix(file_path)>>] >>

\* The content of the last tool message of the list, None when there is none
\* (the for loop over existing_messages).
LastToolContent(messages) ==
    LET tools == SelectSeq(messages, IsToolMessage)
    IN  IF tools = <<>> THEN None ELSE Some(tools[Len(tools)].content)

\* The tool requests of a response: the model names the file of the prompt
\* and gives every request a fresh id.
ToolCalls(names, file_path, issued) ==
    [i \in 1..Len(names) |->
        [name |-> names[i], args |-> [file_path |-> file_path], id |-> issued + i]]

\* parser_agent that writes the absolute path back into the state.
parser_agent_with_tools_rewrites_path(s, llm) ==
    IF "file_path" \notin DOMAIN s
    THEN Raise(<<>>)
    ELSE
    LET existing_messages == Get(s, "messages", <<>>)
        input == IF existing_messages # <<>> THEN existing_messages
                 ELSE SeedMessages(s.file_path)
        issued == Len(SelectSeq(existing_messages, IsToolMessage))
        response == AIMessage(llm.content, ToolCalls(llm.tool_names, s.file_path, issued))
        parsed_text == LastToolContent(existing_messages)
    IN  IF ~llm.ok
        THEN Raise(<<LlmCall("parser_agent", input)>>)
        ELSE IF response.tool_calls = <<>>
        THEN Return([messages |-> <<response>>,
                     file_path |-> "/abs/contract.pdf",
                     parsed_text |-> parsed_text,
                     current_step |-> IF TruthyText(parsed_text) THEN "extract" ELSE "error",
                     error_message |->
                         IF TruthyText(parsed_text) THEN None
                         ELSE Some(<<"Failed to extract text from document.">>)],
                    <<LlmCall("parser_agent", input)>>)
        ELSE Return([messages |-> <<response>>], <<LlmCall("parser_agent", input)>>)

\* parser_agent that puts the seed prompt into the log with its response.
parser_agent_with_tools_logs_seed(s, llm) ==
    IF "file_path" \notin DOMAIN s
    THEN Raise(<<>>)
    ELSE
    LET existing_messages == Get(s, "messages", <<>>)
        input == IF existing_messages # <<>> THEN existing_messages
                 ELSE SeedMessages(s.file_path)
        added == IF existing_messages # <<>> THEN <<>> ELSE SeedMessages(s.file_path)
        issued == Len(SelectSeq(existing_messages, IsToolMessage))
        response == AIMessage(llm.content, ToolCalls(llm.tool_names, s.file_path, issued))
        parsed_text == LastToolContent(existing_messages)
    IN  IF ~llm.ok
        THEN Raise(<<LlmCall("parser_agent", input)>>)
        ELSE IF response.tool_calls = <<>>
        THEN Return([messages |-> added \o <<response>>,
                     parsed_text |-> parsed_text,
                     current_step |-> IF TruthyText(parsed_text) THEN "extract" ELSE "error",
                     error_message |->
                         IF TruthyText(parsed_text) THEN None
                         ELSE Some(<<"Failed to extract text from document.">>)],
                    <<LlmCall("parser_agent", input)>>)
        ELSE Return([messages |-> added \o <<response>>], <<LlmCall("parser_agent", input)>>)

parser_agent_with_tools(s, llm) ==
    IF "file_path" \notin DOMAIN s
    THEN Raise(<<>>)                               \* KeyError
    ELSE
    LET file_path == s.file_path
        existing_messages == Get(s, "messages", <<>>)
        input == IF existing_messages # <<>> THEN existing_messages
                 ELSE SeedMessages(file_path)
        call == LlmCall("parser_agent", input)
        issued == Len(SelectSeq(existing_messages, IsToolMessage))
        response == AIMessage(llm.content, ToolCalls(llm.tool_names, file_path, issued))
        parsed_text == LastToolContent(existing_messages)
    IN  IF ~llm.ok
        THEN Raise(<<call>>)                       \* no try around the call
        ELSE IF response.tool_calls = <<>>
        THEN Return([messages |-> <<response>>,
                     parsed_text |-> parsed_text,
                     current_step |-> IF TruthyText(parsed_text) THEN "extract" ELSE "error",
                     error_message |->
                         IF TruthyText(parsed_text) THEN None
                         ELSE Some(<<"Failed to extract text from document.">>)],
                    <<call>>)
        ELSE Return([messages |-> <<response>>], <<call>>)

---------------------------------------------------------------------------
(* The prebuilt ToolNode and tools_condition that graph_with_tools.py      *)
(* wires in.                                                               *)

\* The content of a tool message: the returned dict as JSON text.
JsonDumps(d) ==
    IF "error" \in DOMAIN d
    THEN <<"{error: ">> \o d.error \o <<"}">>
    ELSE <<"{full_text: ">> \o d.full_text \o <<", method: ", d.method, "}">>

\* One request run by the ToolNode: the tool's message, or raised.
RunTool(tc, e) ==
    LET r == PARSER_TOOLS(tc.name, tc.args.file_path, e)
    IN  IF r.exc = ""
        THEN [raised |-> FALSE, msg |-> ToolMessage(JsonDumps(r.ret), tc.name, tc.id)]
        ELSE IF e.handle_tool_errors
        THEN [raised |-> FALSE,
              msg |-> ToolMessage(<<"Error: ">> \o r.msg \o <<"\n Please fix your mistakes.">>,
                                  tc.name, tc.id)]
        ELSE [raised |-> TRUE, msg |-> ToolMessage(<<>>, tc.name, tc.id)]

\* A ToolNode that runs only the first request of the last message.
ToolNode_first_request_only(s, e) ==
    LET last == s.messages[Len(s.messages)]
        out == RunTool(last.tool_calls[1], e)
    IN  IF out.raised
        THEN [raised |-> TRUE, patch |-> <<>>, llm |-> <<>>, tools |-> <<last.tool_calls[1]>>]
        ELSE [raised |-> FALSE,
              patch |-> [messages |-> <<out.msg>>],
              llm |-> <<>>,
              tools |-> <<last.tool_calls[1]>>]

\* A ToolNode that also stores the last tool's content as the parsed text.
ToolNode_writes_parsed_text(s, e) ==
    LET last == s.messages[Len(s.messages)]
        outs == [i \in 1..Len(last.tool_calls) |-> RunTool(last.tool_calls[i], e)]
    IN  IF \E i \in 1..Len(outs) : outs[i].raised
        THEN [raised |-> TRUE, patch |-> <<>>, llm |-> <<>>, tools |-> last.tool_calls]
        ELSE [raised |-> FALSE,
              patch |-> [messages |-> [i \in 1..Len(outs) |-> outs[i].msg],
                         parsed_text |-> Some(outs[Len(outs)].msg.content)],
              llm |-> <<>>,
              tools |-> last.tool_calls]

\* ToolNode(tools=PARSER_TOOLS): runs the requests of the last message and
\* returns their messages in request order.
ToolNode(s, e) ==
    LET last == s.messages[Len(s.messages)]
        outs == [i \in 1..Len(last.tool_calls) |-> RunTool(last.tool_calls[i], e)]
    IN  IF \E i \in 1..Len(outs) : outs[i].raised
        THEN [raised |-> TRUE, patch |-> <<>>, llm |-> <<>>, tools |-> last.tool_calls]
        ELSE [raised |-> FALSE,
              patch |-> [messages |-> [i \in 1..Len(outs) |-> outs[i].msg]],
              llm |-> <<>>,
              tools |-> last.tool_calls]

\* tools_condition that never sends the run to the tools.
tools_condition_never_tools(s) == END

\* tools_condition: "tools" when the last message asks for tools.
tools_condition(s) ==
    LET messages == Get(s, "messages", <<>>)
    IN  IF messages # <<>>
           /\ messages[Len(messages)].type = "ai"
           /\ Len(messages[Len(messages)].tool_calls) > 0
        THEN "tools"
        ELSE END

---------------------------------------------------------------------------
(* agents/clause_extractor.py, agents/risk_assessor.py, agents/summariser.py *)

max_chars == 1500000

\* The truncation with the note appended from the budget on, not above it.
text_to_analyse_note_at_budget(parsed_text, budget) ==
    IF Len(parsed_text) >= budget
    THEN Take(parsed_text, budget)
             \o <<"\n\n[NOTE: Contract truncated at ", ToString(budget),
                  " characters. ", "Full contract is ", ToString(Len(parsed_text)),
                  " characters.]">>
    ELSE Take(parsed_text, budget)

\* parsed_text[:max_chars], plus the note when len(parsed_text) > max_chars.
text_to_analyse(parsed_text, budget) ==
    IF Len(parsed_text) > budget
    THEN Take(parsed_text, budget)
             \o <<"\n\n[NOTE: Contract truncated at ", ToString(budget),
                  " characters. ", "Full contract is ", ToString(Len(parsed_text)),
                  " characters.]">>
    ELSE Take(parsed_text, budget)

\* The step with a precondition that rejects only None.
clause_extractor_none_only(s, llm, budget) ==
    LET parsed_text == Get(s, "parsed_text", Some(<<>>))
    IN  IF parsed_text = None
        THEN Return([current_step |-> "error",
                     error_message |->
                         Some(<<"No parsed text available for clause extraction.">>)], <<>>)
        ELSE IF ~llm.ok
        THEN Return([current_step |-> "error",
                     error_message |-> Some(<<"Clause extraction failed: ">> \o llm.msg)],
                    <<LlmCall("clause_extractor", text_to_analyse(parsed_text[1], budget))>>)
        ELSE Return([extraction_result |-> Some(llm.value), current_step |-> "assess_risk"],
                    <<LlmCall("clause_extractor", text_to_analyse(parsed_text[1], budget))>>)

\* The step calling the generation client a second time when it fails.
clause_extractor_retries_once(s, llm, budget) ==
    LET parsed_text == Get(s, "parsed_text", Some(<<>>))
    IN  IF ~TruthyText(parsed_text)
        THEN Return([current_step |-> "error",
                     error_message |->
                         Some(<<"No parsed text available for clause extraction.">>)], <<>>)
        ELSE IF ~llm.ok
        THEN Return([current_step |-> "error",
                     error_message |-> Some(<<"Clause extraction failed: ">> \o llm.msg)],
                    <<LlmCall("clause_extractor", text_to_analyse(parsed_text[1], budget)),
                      LlmCall("clause_extractor", text_to_analyse(parsed_text[1], budget))>>)
        ELSE Return([extraction_result |-> Some(llm.value), current_step |-> "assess_risk"],
                    <<LlmCall("clause_extractor", text_to_analyse(parsed_text[1], budget))>>)

\* The body of clause_extractor_agent, with max_chars as a parameter.
clause_extractor(s, llm, budget) ==
    LET parsed_text == Get(s, "parsed_text", Some(<<>>))
    IN  IF ~TruthyText(parsed_text)
        THEN Return([current_step |-> "error",
                     error_message |->
                         Some(<<"No parsed text available for clause extraction.">>)], <<>>)
        ELSE
        LET call == LlmCall("clause_extractor", text_to_analyse(parsed_text[1], budget))
        IN  IF ~llm.ok
            THEN Return([current_step |-> "error",
                         error_message |-> Some(<<"Clause extraction failed: ">> \o llm.msg)],
                        <<call>>)
            ELSE Return([extraction_result |-> Some(llm.value),
                         current_step |-> "assess_risk"], <<call>>)

clause_extractor_agent(s, llm) == clause_extractor(s, llm, max_chars)

\* The rendering of the extraction sent to the risk assessor.
format_clauses_for_assessment(extraction) ==
    <<"Contract Type: ", extraction.contract_type, "\n", "Parties: ", "\n",
      "\nExtracted Clauses (", ToString(Len(extraction.clauses)), " found):", "\n",
      "------------------------------------------------------------">>
        \o Join(<<>>, [i \in 1..Len(extraction.clauses) |->
                          <<"\n", "\n[", ToString(i), "] ",
                            extraction.clauses[i].clause_type, " - ",
                            extraction.clauses[i].title>>])

\* risk_assessor_agent reporting its client's failure under the clause
\* extractor's message.
risk_assessor_agent_copied_prefix(s, llm) ==
    LET extraction == Get(s, "extraction_result", None)
    IN  IF ~TruthyObj(extraction)
        THEN Return([current_step |-> "error",
                     error_message |->
                         Some(<<"No extraction results available for risk assessment.">>)],
                    <<>>)
        ELSE IF ~llm.ok
        THEN Return([current_step |-> "error",
                     error_message |-> Some(<<"Clause extraction failed: ">> \o llm.msg)],
                    <<LlmCall("risk_assessor", format_clauses_for_assessment(extraction[1]))>>)
        ELSE Return([risk_result |-> Some(llm.value), current_step |-> "summarise"],
                    <<LlmCall("risk_assessor", format_clauses_for_assessment(extraction[1]))>>)

risk_assessor_agent(s, llm) ==
    LET extraction == Get(s, "extraction_result", None)
    IN  IF ~TruthyObj(extraction)
        THEN Return([current_step |-> "error",
                     error_message |->
                         Some(<<"No extraction results available for risk assessment.">>)],
                    <<>>)
        ELSE
        LET call == LlmCall("risk_assessor", format_clauses_for_assessment(extraction[1]))
        IN  IF ~llm.ok
            THEN Return([current_step |-> "error",
                         error_message |-> Some(<<"Risk assessment failed: ">> \o llm.msg)],
                        <<call>>)
            ELSE Return([risk_result |-> Some(llm.value),
                         current_step |-> "summarise"], <<call>>)

\* The rendering of extraction and risk sent to the summariser.
build_analysis_context(extraction, risk) ==
    <<"=== CONTRACT DETAILS ===", "\n", "Type: ", extraction.contract_type, "\n",
      "Clauses Extracted: ", ToString(Len(extraction.clauses)), "\n",
      "=== RISK OVERVIEW ===", "\n", "Overall Risk: ", risk.overall_risk, "\n",
      "=== CLAUSE-BY-CLAUSE ASSESSMENT ===">>

\* summariser_agent that reports completion without storing the summary.
summariser_agent_drops_summary(s, llm) ==
    LET extraction == Get(s, "extraction_result", None)
        risk == Get(s, "risk_result", None)
    IN  IF ~TruthyObj(extraction) \/ ~TruthyObj(risk)
        THEN Return([current_step |-> "error",
                     error_message |->
                         Some(<<"Missing extraction or risk data for summarisation.">>)],
                    <<>>)
        ELSE IF ~llm.ok
        THEN Return([current_step |-> "error",
                     error_message |-> Some(<<"Summarisation failed: ">> \o llm.msg)],
                    <<LlmCall("summariser", build_analysis_context(extraction[1], risk[1]))>>)
        ELSE Return([current_step |-> "complete"],
                    <<LlmCall("summariser", build_analysis_context(extraction[1], risk[1]))>>)

\* summariser_agent that stores an empty summary when its client fails.
summariser_agent_keeps_partial(s, llm) ==
    LET extraction == Get(s, "extraction_result", None)
        risk == Get(s, "risk_result", None)
    IN  IF ~TruthyObj(extraction) \/ ~TruthyObj(risk)
        THEN Return([current_step |-> "error",
                     error_message |->
                         Some(<<"Missing extraction or risk data for summarisation.">>)],
                    <<>>)
        ELSE IF ~llm.ok
        THEN Return([executive_summary |-> Some(<<>>),
                     current_step |-> "error",
                     error_message |-> Some(<<"Summarisation failed: ">> \o llm.msg)],
                    <<LlmCall("summariser", build_analysis_context(extraction[1], risk[1]))>>)
        ELSE Return([executive_summary |-> Some(llm.value), current_step |-> "complete"],
                    <<LlmCall("summariser", build_analysis_context(extraction[1], risk[1]))>>)

summariser_agent(s, llm) ==
    LET extraction == Get(s, "extraction_result", None)
        risk == Get(s, "risk_result", None)
    IN  IF ~TruthyObj(extraction) \/ ~TruthyObj(risk)
        THEN Return([current_step |-> "error",
                     error_message |->
                         Some(<<"Missing extraction or risk data for summarisation.">>)],
                    <<>>)
        ELSE
        LET call == LlmCall("summariser", build_analysis_context(extraction[1], risk[1]))
        IN  IF ~llm.ok
            THEN Return([current_step |-> "error",
                         error_message |-> Some(<<"Summarisation failed: ">> \o llm.msg)],
                        <<call>>)
            ELSE Return([executive_summary |-> Some(llm.value),
                         current_step |-> "complete"], <<call>>)

---------------------------------------------------------------------------
(* graph.py and graph_with_tools.py *)

\* route_after_step whose default sends an unknown step on to extraction.
route_after_step_fail_open(s) ==
    LET step == Get(s, "current_step", "error")
        routing == [extract |-> "clause_extractor",
                    assess_risk |-> "risk_assessor",
                    summarise |-> "summariser",
                    complete |-> "complete",
                    error |-> "error_handler"]
    IN  Get(routing, step, "clause_extractor")

\* route_after_step that also looks at error_message.
route_after_step_reads_error_message(s) ==
    LET step == Get(s, "current_step", "error")
        routing == [extract |-> "clause_extractor",
                    assess_risk |-> "risk_assessor",
                    summarise |-> "summariser",
                    complete |-> "complete",
                    error |-> "error_handler"]
    IN  IF Get(s, "error_message", None) # None THEN "error_handler"
        ELSE Get(routing, step, "error_handler")

\* route_after_step whose table answers "summarise" with the step's name
\* instead of the node's key.
route_after_step_summarise_key(s) ==
    LET step == Get(s, "current_step", "error")
        routing == [extract |-> "clause_extractor",
                    assess_risk |-> "risk_assessor",
                    summarise |-> "summarise",
                    complete |-> "complete",
                    error |-> "error_handler"]
    IN  Get(routing, step, "error_handler")

route_after_step(s) ==
    LET step == Get(s, "current_step", "error")
        routing == [extract |-> "clause_extractor",
                    assess_risk |-> "risk_assessor",
                    summarise |-> "summariser",
                    complete |-> "complete",
                    error |-> "error_handler"]
    IN  Get(routing, step, "error_handler")

\* The line error_handler prints: the state's error_message, or the default
\* of state.get when the key is missing.
error_handler_print(s) ==
    LET error_msg == Get(s, "error_message", Some(<<"Unknown error occurred.">>))
    IN  <<"[ERROR] Pipeline failed: ">> \o (IF error_msg = None THEN <<"None">> ELSE error_msg[1])

\* error_handler that reads state["error_message"].
error_handler_requires_message(s) ==
    IF "error_message" \notin DOMAIN s
    THEN Raise(<<>>)
    ELSE Return([current_step |-> "error"], <<>>)

\* error_handler that resets error_message on its way out.
error_handler_clears_message(s) ==
    Return([current_step |-> "error", error_message |-> None], <<>>)

\* error_handler that also resets the parsed text.
error_handler_resets_parsed_text(s) ==
    Return([current_step |-> "error", parsed_text |-> None], <<>>)

\* An error handler that reports the run as complete.
error_handler_sets_complete(s) ==
    Return([current_step |-> "complete"], <<>>)

error_handler(s) ==
    Return([current_step |-> "error"], <<>>)

\* The step edges with the clause extractor's error key wired to the risk
\* assessor.
StepEdges_error_to_risk_assessor ==
    [clause_extractor |-> [risk_assessor |-> "risk_assessor",
                           error_handler |-> "risk_assessor"],
     risk_assessor    |-> [summariser |-> "summariser",
                           error_handler |-> "error_handler"],
     summariser       |-> [complete |-> END,
                           error_handler |-> "error_handler"]]

\* The conditional edges shared by the two graphs: node -> destination map.
StepEdges ==
    [clause_extractor |-> [risk_assessor |-> "risk_assessor",
                           error_handler |-> "error_handler"],
     risk_assessor    |-> [summariser |-> "summariser",
                           error_handler |-> "error_handler"],
     summariser       |-> [complete |-> END,
                           error_handler |-> "error_handler"]]

\* build_graph with the risk assessor's error key wired to the summariser.
build_graph_error_to_summariser ==
    [entry |-> "parser",
     conditional |->
        [parser |-> [clause_extractor |-> "clause_extractor",
                     error_handler |-> "error_handler"],
         clause_extractor |-> [risk_assessor |-> "risk_assessor",
                               error_handler |-> "error_handler"],
         risk_assessor    |-> [summariser |-> "summariser",
                               error_handler |-> "summariser"],
         summariser       |-> [complete |-> END,
                               error_handler |-> "error_handler"]],
     edges |-> [error_handler |-> END]]

\* graph.py build_graph
build_graph ==
    [entry |-> "parser",
     conditional |->
        [parser |-> [clause_extractor |-> "clause_extractor",
                     error_handler |-> "error_handler"]] @@ StepEdges,
     edges |-> [error_handler |-> END]]

\* build_graph of graph_with_tools.py without the edge back to parser_agent.
build_graph_with_tools_no_loop_back ==
    [entry |-> "parser_agent",
     conditional |->
        [parser_agent |-> [tools |-> "parser_tools",
                           __end__ |-> "clause_extractor"],
         clause_extractor |-> [risk_assessor |-> "risk_assessor",
                               error_handler |-> "error_handler"],
         risk_assessor    |-> [summariser |-> "summariser",
                               error_handler |-> "error_handler"],
         summariser       |-> [complete |-> END,
                               error_handler |-> "error_handler"]],
     edges |-> [parser_tools |-> "clause_extractor", error_handler |-> END]]

\* graph_with_tools.py build_graph
build_graph_with_tools ==
    [entry |-> "parser_agent",
     conditional |->
        [parser_agent |-> [tools |-> "parser_tools",
                           __end__ |-> "clause_extractor"]] @@ StepEdges,
     edges |-> [parser_tools |-> "parser_agent", error_handler |-> END]]

Graph(p) == IF p = "main" THEN build_graph ELSE build_graph_with_tools

\* The routing function attached to a node's conditional edges.
Router(p, node, s) ==
    IF p = "tools" /\ node = "parser_agent" THEN tools_condition(s)
    ELSE route_after_step(s)

\* The node that runs after `node` left the state s; a routing key that the
\* node's destination map lacks is an error raised at run time.
NextNode(p, node, s) ==
    LET g == Graph(p)
    IN  IF node \in DOMAIN g.edges THEN g.edges[node]
        ELSE LET key == Router(p, node, s)
                 map == g.conditional[node]
             IN  IF key \in DOMAIN map THEN map[key] ELSE RAISED

---------------------------------------------------------------------------
(* models/state.py: merging a patch into the state *)

\* A reducer that puts the new messages in front of the log.
add_messages_prepends(left, right) == right \o left

\* The add_messages reducer: new messages are appended.
add_messages(left, right) == left \o right

\* A merge with no reducer: a patch's messages replace the log.
Merge_without_reducer(s, patch) ==
    [k \in DOMAIN s \cup DOMAIN patch |->
        IF k \notin DOMAIN patch THEN s[k] ELSE patch[k]]

Merge(s, patch) ==
    [k \in DOMAIN s \cup DOMAIN patch |->
        IF k \notin DOMAIN patch THEN s[k]
        ELSE IF k = "messages" THEN add_messages(Get(s, "messages", <<>>), patch[k])
        ELSE patch[k]]

\* main.py / app.py: the initial state the CLI and the web UI build for the
\* graph of graph.py.  They name the input "pdf_path", a key the state
\* schema does not have, so the graph drops it; a caller that names it
\* "file_path", as the schema does, sets the input.  The messages channel
\* has a reducer and starts as the empty list.
InputState(named_file_path, path) ==
    LET given == [parsed_text |-> None,
                  document_metadata |-> None,
                  extraction_result |-> None,
                  risk_result |-> None,
                  executive_summary |-> None,
                  current_step |-> "parse",
                  error_message |-> None,
                  messages |-> <<>>]
    IN  IF named_file_path THEN [file_path |-> path] @@ given ELSE given

---------------------------------------------------------------------------
(* A run of a compiled graph: invoke(initial_state) *)

Init ==
    /\ pipeline \in {"main", "tools"}
    /\ env \in {e \in Envs : WellFormedEnv(e)}
    /\ pipeline = "main" =>
           env.docx_installed /\ env.ocr_installed /\ env.handle_tool_errors
    /\ \E named_file_path \in BOOLEAN :
           /\ pipeline = "tools" => named_file_path
           /\ state = InputState(named_file_path, env.path)
    /\ pc = Graph(pipeline).entry
    /\ trace = <<>>
    /\ llm_log = <<>>
    /\ tool_log = <<>>

\* One node runs: its patch is merged and the route is taken, or its
\* exception leaves the run without a final state.
Step(node, out) ==
    /\ trace' = Append(trace, node)
    /\ llm_log' = llm_log \o out.llm
    /\ tool_log' = tool_log \o out.tools
    /\ IF out.raised
       THEN /\ state' = state
            /\ pc' = RAISED
       ELSE LET merged == Merge(state, out.patch)
            IN  /\ state' = merged
                /\ pc' = NextNode(pipeline, node, merged)
    /\ UNCHANGED <<pipeline, env>>

Parser ==
    /\ pc = "parser"
    /\ \E llm \in LlmOutcomes(AnalysisTexts) :
           Step("parser", parser_agent(state, env, llm))

\* The tool requests already answered in the log.
ToolCallsDone(s) == Len(SelectSeq(Get(s, "messages", <<>>), IsToolMessage))

ParserAgent ==
    /\ pc = "parser_agent"
    /\ \E llm \in LlmToolOutcomes :
           /\ ToolCallsDone(state) + Len(llm.tool_names) <= MaxToolCalls
           /\ Step("parser_agent", parser_agent_with_tools(state, llm))

ParserTools ==
    /\ pc = "parser_tools"
    /\ Step("parser_tools", ToolNode(state, env))

ClauseExtractor ==
    /\ pc = "clause_extractor"
    /\ \E llm \in LlmOutcomes(ExtractionResults) :
           Step("clause_extractor", clause_extractor_agent(state, llm))

RiskAssessor ==
    /\ pc = "risk_assessor"
    /\ \E llm \in LlmOutcomes(RiskResults) :
           Step("risk_assessor", risk_assessor_agent(state, llm))

Summariser ==
    /\ pc = "summariser"
    /\ \E llm \in LlmOutcomes(SummaryTexts) :
           Step("summariser", summariser_agent(state, llm))

ErrorHandler ==
    /\ pc = "error_handler"
    /\ Step("error_handler", error_handler(state))

Next ==
    \/ Parser
    \/ ParserAgent
    \/ ParserTools
    \/ ClauseExtractor
    \/ RiskAssessor
    \/ Summariser
    \/ ErrorHandler

Spec == Init /\ [][Next]_vars

---------------------------------------------------------------------------
(* route_after_step on its own, applied to any state a node could be given *)

StepValues ==
    {"parse", "extract", "assess_risk", "summarise", "complete", "error", "bogus"}

RouteStates ==
    LET rest == { [parsed_text |-> t, extraction_result |-> x, risk_result |-> r,
                   executive_summary |-> u, error_message |-> m, messages |-> g] :
                    t \in {None, Some(<<"a">>)},
                    x \in {None} \cup {Some(v) : v \in ExtractionResults},
                    r \in {None, Some(CHOOSE v \in RiskResults : TRUE)},
                    u \in {None, Some(<<"summary">>)},
                    m \in {None, Some(ExcTimeout)},
                    g \in {<<>>, <<AIMessage(<<"done">>, <<>>)>>} }
    IN  rest \cup {[current_step |-> c] @@ f : c \in StepValues, f \in rest}

InitRoute ==
    /\ pipeline = "route"
    /\ env \in {e \in Envs : WellFormedEnv(e) /\ e.file = "missing" /\ e.path = "contract.pdf"
                               /\ e.docx_installed /\ e.ocr_installed /\ e.handle_tool_errors}
    /\ state \in RouteStates
    /\ pc = "route_after_step"
    /\ trace = <<>>
    /\ llm_log = <<>>
    /\ tool_log = <<>>

Route ==
    /\ pc = "route_after_step"
    /\ pc' = route_after_step(state)
    /\ trace' = Append(trace, "route_after_step")
    /\ UNCHANGED <<pipeline, env, state, llm_log, tool_log>>

NextRoute == Route

SpecRoute == InitRoute /\ [][NextRoute]_vars

---------------------------------------------------------------------------
(* The analysis steps called on any state: each is a function of the state
   it is given, whatever put the state together. *)

\* A state that has the field k with one of the values, or has no field k.
OptionalField(k, values) == {<<>>} \cup {[x \in {k} |-> v] : v \in values}

StepEntry ==
    [clause_extractor |-> {"extract"},
     risk_assessor |-> {"assess_risk"},
     summariser |-> {"summarise"},
     error_handler |-> {"error", "bogus"}]

StepStates(step) ==
    { Merge(Merge(Merge(Merge([current_step |-> c, messages |-> <<>>], t), x), r), m) :
        c \in StepEntry[step],
        t \in OptionalField("parsed_text", {None, Some(<<>>), Some(<<"a">>)}),
        x \in OptionalField("extraction_result",
                            {None} \cup {Some(v) : v \in ExtractionResults}),
        r \in OptionalField("risk_result", {None} \cup {Some(v) : v \in RiskResults}),
        m \in OptionalField("error_message", {None, Some(ExcTimeout)}) }

InitSteps ==
    /\ pipeline \in {"main", "tools"}
    /\ env \in {e \in Envs : WellFormedEnv(e) /\ e.file = "missing" /\ e.path = "contract.pdf"
                               /\ e.docx_installed /\ e.ocr_installed /\ e.handle_tool_errors}
    /\ pc \in {"clause_extractor", "risk_assessor", "summariser", "error_handler"}
    /\ state \in StepStates(pc)
    /\ trace = <<>>
    /\ llm_log = <<>>
    /\ tool_log = <<>>

NextSteps ==
    \/ ClauseExtractor
    \/ RiskAssessor
    \/ Summariser
    \/ ErrorHandler

SpecSteps == InitSteps /\ [][NextSteps]_vars

---------------------------------------------------------------------------
(* clause_extractor.py lines 36-43 for any budget: the step is run with a
   max_chars small enough for texts on both sides of it. *)

MaxTextLen == 4
MaxBudget == 3

Texts == SeqsUpTo({"a", "b"}, MaxTextLen)

InitTruncate ==
    /\ pipeline = "main"
    /\ \E b \in 0..MaxBudget :
           env = [max_chars |-> b]
    /\ \E t \in Texts :
           state = [parsed_text |-> Some(t), current_step |-> "extract", messages |-> <<>>]
    /\ pc = "clause_extractor"
    /\ trace = <<>>
    /\ llm_log = <<>>
    /\ tool_log = <<>>

ClauseExtractorWithBudget ==
    /\ pc = "clause_extractor"
    /\ \E llm \in LlmOutcomes(ExtractionResults) :
           Step("clause_extractor", clause_extractor(state, llm, env.max_chars))

NextTruncate == ClauseExtractorWithBudget

SpecTruncate == InitTruncate /\ [][NextTruncate]_vars

---------------------------------------------------------------------------
(* main.py --verbose and app.py: app.stream(initial_state) runs the graph of
   graph.py to its end, then app.invoke(initial_state) runs it again; an
   exception of the first run leaves the caller before the second. *)

InitTwice ==
    /\ pipeline = "main"
    /\ env \in {e \in Envs : WellFormedEnv(e)}
    /\ env.docx_installed /\ env.ocr_installed /\ env.handle_tool_errors
    /\ \E named_file_path \in BOOLEAN :
           state = InputState(named_file_path, env.path)
    /\ pc = Graph(pipeline).entry
    /\ trace = <<>>
    /\ llm_log = <<>>
    /\ tool_log = <<>>

\* final_state = app.invoke(initial_state), after the stream has ended.
Invoke ==
    /\ pc = END
    /\ \A i \in 1..Len(trace) : trace[i] # "invoke"
    /\ state' = InputState("file_path" \in DOMAIN state, env.path)
    /\ pc' = Graph(pipeline).entry
    /\ trace' = Append(trace, "invoke")
    /\ UNCHANGED <<pipeline, env, llm_log, tool_log>>

NextTwice ==
    \/ Parser
    \/ ClauseExtractor
    \/ RiskAssessor
    \/ Summariser
    \/ ErrorHandler
    \/ Invoke

SpecTwice == InitTwice /\ [][NextTwice]_vars

---------------------------------------------------------------------------
(* Properties *)

Field(k) == Get(state, k, None)
CurrentStep == Get(state, "current_step", "")
Last(q) == q[Len(q)]
Ran(node) == \E i \in 1..Len(trace) : trace[i] = node
CallsBy(caller) == SelectSeq(llm_log, LAMBDA c : c.caller = caller)

MainOrder == <<"parser", "clause_extractor", "risk_assessor", "summariser">>

\* C1: in the main pipeline, once a step has returned current_step =
\* "error", the next node is error_handler and no later step runs: the
\* nodes executed are the steps up to the failing one, then error_handler.
C1_ErrorBypassesRemainingSteps ==
    (pipeline = "main" /\ pc # RAISED /\ CurrentStep = "error") =>
        /\ pc \in {"error_handler", END}
        /\ \E n \in 1..Len(MainOrder) :
               trace = SubSeq(MainOrder, 1, n)
                           \o (IF pc = END THEN <<"error_handler">> ELSE <<>>)

C1_Witness ==
    /\ pipeline = "main"
    /\ pc = END
    /\ CurrentStep = "error"
    /\ trace = <<"parser", "clause_extractor", "risk_assessor", "error_handler">>

\* C2: in the tool-calling pipeline, when the parse step finishes with
\* current_step = "error", the next node is error_handler and
\* clause_extractor does not run.
C2_ParseErrorRoutesToErrorHandler ==
    (pipeline = "tools" /\ pc # RAISED /\ trace # <<>> /\ CurrentStep = "error") =>
        /\ Last(trace) = "parser_agent" => pc = "error_handler"
        /\ ~Ran("clause_extractor")

\* The record a tool message answers with, recomputed from the file.
ToolRecord(msg) == PARSER_TOOLS(msg.name, env.path, env)

HasText(msg) ==
    LET r == ToolRecord(msg)
    IN  r.exc = "" /\ "full_text" \in DOMAIN r.ret /\ r.ret.full_text # <<>>

NoTextExtracted ==
    \A i \in 1..Len(state.messages) :
        IsToolMessage(state.messages[i]) => ~HasText(state.messages[i])

\* C3: in the tool-calling pipeline, a run whose parse loop ends with no
\* tool result carrying a non-empty full_text ends with current_step =
\* "error" and a non-empty error_message, and never calls the generation
\* client for clause extraction.
C3_NoTextMeansError ==
    (pipeline = "tools" /\ pc = END /\ NoTextExtracted) =>
        /\ CurrentStep = "error"
        /\ TruthyText(Field("error_message"))
        /\ CallsBy("clause_extractor") = <<>>

\* C4: a run that ends with current_step = "complete" has
\* extraction_result, risk_result and executive_summary all present.
C4_CompleteHasAllResults ==
    (pc = END /\ CurrentStep = "complete") =>
        /\ Field("extraction_result") # None
        /\ Field("risk_result") # None
        /\ Field("executive_summary") # None

C4_Witness ==
    /\ pc = END
    /\ CurrentStep = "complete"
    /\ pipeline = "tools"
    /\ Field("executive_summary") = Some(<<>>)

\* C5: no exception crosses a step boundary: every node returns a patch,
\* so no run ends in an uncaught exception.
C5_NoExceptionLeavesANode == pc # RAISED

\* C6: in every state of a run, error_message is present exactly when
\* current_step = "error".
C6_ErrorMessageIffErrorStep ==
    (Field("error_message") # None) <=> (CurrentStep = "error")

C6_Witness ==
    /\ pipeline = "tools"
    /\ pc = END
    /\ Last(trace) = "error_handler"
    /\ CurrentStep = "error"
    /\ Field("error_message") = Some(<<"Risk assessment failed: ">> \o ExcTimeout)

\* C7: route_after_step sends extract, assess_risk, summarise, complete and
\* error to clause_extractor, risk_assessor, summariser, the success
\* terminal and error_handler, and every other current_step, an unset one
\* and "parse" included, to error_handler.
C7_RoutingTable ==
    pc # "route_after_step" =>
        LET set == "current_step" \in DOMAIN state
            step == Get(state, "current_step", "")
        IN  /\ (set /\ step = "extract") => pc = "clause_extractor"
            /\ (set /\ step = "assess_risk") => pc = "risk_assessor"
            /\ (set /\ step = "summarise") => pc = "summariser"
            /\ (set /\ step = "complete") =>
                   pc = "complete" /\ StepEdges.summariser[pc] = END
            /\ (set /\ step = "error") => pc = "error_handler"
            /\ (~set \/ step \in {"parse", "bogus"}) => pc = "error_handler"

C7_Witness ==
    /\ pc = "error_handler"
    /\ "current_step" \notin DOMAIN state
    /\ Field("error_message") = None

\* Two states agree on current_step: both lack it or both hold the same value.
SameStep(s1, s2) ==
    /\ ("current_step" \in DOMAIN s1) = ("current_step" \in DOMAIN s2)
    /\ Get(s1, "current_step", "") = Get(s2, "current_step", "")

\* C8: the destination route_after_step returned for the state is the one
\* it returns for every state with the same current_step, whatever the
\* other fields hold.
C8_RouteDependsOnStepOnly ==
    pc # "route_after_step" =>
        \A other \in RouteStates :
            SameStep(state, other) => route_after_step(other) = pc

C8_Witness ==
    /\ pc = "clause_extractor"
    /\ Field("error_message") # None
    /\ Field("parsed_text") = None
    /\ Field("executive_summary") # None

IsAIMessage(msg) == msg.type = "ai"
HasToolCalls(msg) == msg.tool_calls # <<>>

\* The responses of the reasoning step, and those that request tools.
Responses == SelectSeq(Get(state, "messages", <<>>), IsAIMessage)
Requests == SelectSeq(Responses, HasToolCalls)

ParseLoop == {"parser_agent", "parser_tools"}

LoopLeft ==
    /\ pipeline = "tools"
    /\ pc \in {"clause_extractor", "risk_assessor", "summariser", "error_handler", END}

\* C9: when the reasoning step asked for n tools one at a time and then for
\* none, exactly those n tools were executed in that order, the reasoning
\* step was called n+1 times, and the loop ended with the (n+1)-th call.
C9_ToolsRunInRequestOrder ==
    (LoopLeft /\ \A i \in 1..Len(Requests) : Len(Requests[i].tool_calls) = 1) =>
        LET n == Len(Requests)
        IN  /\ tool_log = [i \in 1..n |-> Requests[i].tool_calls[1]]
            /\ Len(CallsBy("parser_agent")) = n + 1
            /\ Len(trace) >= 2 * n + 1
            /\ \A i \in 1..Len(trace) :
                   IF i <= 2 * n + 1
                   THEN trace[i] = (IF i % 2 = 1 THEN "parser_agent" ELSE "parser_tools")
                   ELSE trace[i] \notin ParseLoop

C9_Witness ==
    /\ LoopLeft
    /\ pc = END
    /\ Len(Requests) = 2
    /\ tool_log = << [name |-> "parse_pdf", args |-> [file_path |-> "contract.pdf"], id |-> 1],
                     [name |-> "ocr_scanned_document",
                      args |-> [file_path |-> "contract.pdf"], id |-> 2] >>
    /\ Len(CallsBy("parser_agent")) = 3

\* The node that ran after the i-th one, or the node about to run.
NextAfter(i) == IF i < Len(trace) THEN trace[i + 1] ELSE pc

\* How many of the first i executed nodes were parser_agent.
Invocations(i) ==
    Cardinality({j \in 1..i : trace[j] = "parser_agent"})

\* C10: parser_tools runs only right after a parser_agent whose response
\* requests a tool; after parser_tools comes parser_agent; a response with
\* no tool request leaves the loop for good.
C10_ParseLoopAlternates ==
    pipeline = "tools" =>
        \A i \in 1..Len(trace) :
            LET k == Invocations(i)
            IN  /\ trace[i] = "parser_tools" =>
                       /\ i > 1
                       /\ trace[i - 1] = "parser_agent"
                       /\ k <= Len(Responses)
                       /\ HasToolCalls(Responses[k])
                       /\ NextAfter(i) \in {"parser_agent", RAISED}
                /\ (trace[i] = "parser_agent" /\ k <= Len(Responses)
                        /\ ~HasToolCalls(Responses[k])) =>
                       /\ NextAfter(i) \notin ParseLoop
                       /\ \A j \in (i + 1)..Len(trace) : trace[j] \notin ParseLoop

C10_Witness ==
    /\ pipeline = "tools"
    /\ pc = END
    /\ Len(trace) >= 6
    /\ SubSeq(trace, 1, 6) =
           <<"parser_agent", "parser_tools", "parser_agent", "parser_tools",
             "parser_agent", "clause_extractor">>

ToolMessages == SelectSeq(state.messages, IsToolMessage)

\* C11: once the parse loop is left, parsed_text is the full_text of the
\* record of the last tool message of the log; with no tool message in the
\* log, parsed_text is absent and the parse step ends with current_step =
\* "error".
C11_ParsedTextIsLastFullText ==
    LoopLeft =>
        IF ToolMessages = <<>>
        THEN /\ Field("parsed_text") = None
             /\ Last(trace) = "parser_agent" => CurrentStep = "error"
        ELSE LET r == ToolRecord(Last(ToolMessages))
             IN  (r.exc = "" /\ "full_text" \in DOMAIN r.ret) =>
                     Field("parsed_text") = Some(r.ret.full_text)

\* How many of the first i messages of the log are tool messages.
ToolRank(i) ==
    Cardinality({j \in 1..i : IsToolMessage(state.messages[j])})

\* C12: when the next reasoning invocation may start, every response of the
\* log is followed by one tool message per request it made, in request
\* order, each tagged with the id and the name of its request, and the
\* tools executed are exactly those requests with their arguments.
C12_OneRecordPerRequestInOrder ==
    (pipeline = "tools" /\ pc \notin {"parser_tools", RAISED}) =>
        LET m == state.messages
        IN  /\ Len(ToolMessages) = Len(tool_log)
            /\ m # <<>> => IsAIMessage(m[1])
            /\ \A i \in 1..Len(m) :
                   IsAIMessage(m[i]) =>
                       LET n == Len(m[i].tool_calls)
                       IN  /\ i + n <= Len(m)
                           /\ \A j \in 1..n :
                                  /\ IsToolMessage(m[i + j])
                                  /\ m[i + j].tool_call_id = m[i].tool_calls[j].id
                                  /\ m[i + j].name = m[i].tool_calls[j].name
                                  /\ tool_log[ToolRank(i + j)] = m[i].tool_calls[j]
                           /\ i + n < Len(m) => IsAIMessage(m[i + n + 1])

C12_Witness ==
    /\ pipeline = "tools"
    /\ pc = "parser_agent"
    /\ Len(state.messages) = 3
    /\ Len(state.messages[1].tool_calls) = 2
    /\ IsToolMessage(state.messages[2])
    /\ IsToolMessage(state.messages[3])
    /\ state.messages[2].name # state.messages[3].name

\* C13: a run of the main pipeline never leaves a node by an exception,
\* executes at most 5 nodes, and a run of 5 nodes is at END.
C13_MainRunEndsWithinFiveNodes ==
    pipeline = "main" =>
        /\ pc # RAISED
        /\ Len(trace) <= 5
        /\ Len(trace) = 5 => pc = END

Steps == {"clause_extractor", "risk_assessor", "summariser"}

ResultField ==
    [clause_extractor |-> "extraction_result",
     risk_assessor |-> "risk_result",
     summariser |-> "executive_summary"]

FailurePrefix ==
    [clause_extractor |-> "Clause extraction failed: ",
     risk_assessor |-> "Risk assessment failed: ",
     summariser |-> "Summarisation failed: "]

\* The step called the generation client and wrote no result: the client
\* raised inside it.
ClientRaisedIn(step) ==
    /\ pc # RAISED
    /\ CallsBy(step) # <<>>
    /\ Field(ResultField[step]) = None

\* C15: when the generation client raised inside clause_extractor,
\* risk_assessor or summariser, the state from then on, the final state
\* included, has current_step = "error" and an error_message that begins
\* with that step's failure prefix, and the run goes to error_handler.
C15_ClientFailureIsReported ==
    \A step \in Steps :
        ClientRaisedIn(step) =>
            /\ pc \in {"error_handler", END}
            /\ CurrentStep = "error"
            /\ Field("error_message") # None
            /\ Field("error_message")[1] # <<>>
            /\ Head(Field("error_message")[1]) = FailurePrefix[step]

C15_Witness ==
    /\ pc = END
    /\ ClientRaisedIn("risk_assessor")
    /\ Head(Field("error_message")[1]) = "Risk assessment failed: "
    /\ Last(trace) = "error_handler"

Absent(k) == k \notin DOMAIN state \/ state[k] = None

\* The step failed its precondition: error with a message, no call of the
\* generation client, the result field left as it was.
Fatal(result) ==
    /\ state'.current_step = "error"
    /\ "error_message" \in DOMAIN state'
    /\ state'.error_message # None
    /\ state'.error_message[1] # <<>>
    /\ llm_log' = llm_log
    /\ (result \in DOMAIN state') = (result \in DOMAIN state)
    /\ result \in DOMAIN state => state'[result] = state[result]
    /\ pc' = "error_handler"

\* C16: clause_extractor run on a state whose parsed_text is absent or
\* empty, risk_assessor on one whose extraction_result is absent, and
\* summariser on one whose extraction_result or risk_result is absent
\* return current_step = "error" with a non-empty error_message, do not
\* call the generation client and do not write their result field.
C16_MissingUpstreamIsFatal ==
    [][ /\ (pc = "clause_extractor"
               /\ (Absent("parsed_text") \/ state.parsed_text = Some(<<>>)))
            => Fatal("extraction_result")
        /\ (pc = "risk_assessor" /\ Absent("extraction_result"))
            => Fatal("risk_result")
        /\ (pc = "summariser" /\ (Absent("extraction_result") \/ Absent("risk_result")))
            => Fatal("executive_summary")
      ]_vars

C16_Witness ==
    /\ trace = <<"summariser">>
    /\ ~Absent("extraction_result")
    /\ "risk_result" \notin DOMAIN state
    /\ "executive_summary" \notin DOMAIN state
    /\ CurrentStep = "error"
    /\ Field("error_message") # None
    /\ llm_log = <<>>
    /\ pc = "error_handler"

ZeroClauses ==
    /\ Field("extraction_result") # None
    /\ Field("extraction_result")[1].clauses = <<>>

\* C17: risk_assessor run on an extraction_result with zero clauses passes
\* its precondition: it calls the generation client once, and when the
\* client returns, risk_result is set, current_step is "summarise" and the
\* summariser is next; only the client's own failure makes it an error.
C17_ZeroClausesStillAssessed ==
    (trace # <<>> /\ Last(trace) = "risk_assessor" /\ ZeroClauses) =>
        /\ Len(CallsBy("risk_assessor")) = 1
        /\ IF Field("risk_result") # None
           THEN CurrentStep = "summarise" /\ pc = "summariser"
           ELSE /\ CurrentStep = "error"
                /\ Head(Field("error_message")[1]) = "Risk assessment failed: "

C17_Witness ==
    /\ trace # <<>>
    /\ Last(trace) = "risk_assessor"
    /\ ZeroClauses
    /\ Field("risk_result") # None
    /\ CurrentStep = "summarise"
    /\ pc = "summariser"

\* The note the claim describes, for budget B and original length L.
TruncationNote(B, L) ==
    <<"\n\n[NOTE: Contract truncated at ", ToString(B), " characters. ",
      "Full contract is ", ToString(L), " characters.]">>

\* C18: with budget B and a parsed_text of length L, the text sent to the
\* generation client is parsed_text itself when L <= B (L = B included),
\* and the first B characters of parsed_text followed by one note naming B
\* and L when L > B.
C18_TruncationAtBudget ==
    CallsBy("clause_extractor") # <<>> =>
        LET text == state.parsed_text[1]
            sent == llm_log[1].input
            B == env.max_chars
            L == Len(text)
        IN  /\ Len(llm_log) = 1
            /\ L <= B => sent = text
            /\ L > B => sent = [i \in 1..B |-> text[i]] \o TruncationNote(B, L)

C18_Witness ==
    /\ CallsBy("clause_extractor") # <<>>
    /\ env.max_chars = 2
    /\ state.parsed_text = Some(<<"a", "b", "a">>)
    /\ llm_log[1].input = <<"a", "b">> \o TruncationNote(2, 3)

\* Patches with no messages field, as the steps return them.
NonLogPatches ==
    { [current_step |-> "extract"],
      [current_step |-> "error", error_message |-> Some(ExcTimeout)],
      [parsed_text |-> Some(<<"a">>), current_step |-> "extract"] }

\* C19: merging a patch without a messages field twice gives the state that
\* merging it once gives, and leaves the message log as it is; the log
\* holds exactly one record per reasoning invocation that returned and one
\* per executed tool request.
C19_MergeIdempotentLogCounts ==
    /\ \A p \in NonLogPatches :
           LET once == Merge(state, p)
           IN  /\ Merge(once, p) = once
               /\ Get(once, "messages", <<>>) = Get(state, "messages", <<>>)
    /\ pc # RAISED =>
           Len(Get(state, "messages", <<>>)) = Len(CallsBy("parser_agent")) + Len(tool_log)

C19_Witness ==
    /\ pipeline = "tools"
    /\ pc = END
    /\ Len(state.messages) = 4
    /\ Len(CallsBy("parser_agent")) = 2
    /\ Len(tool_log) = 2
    /\ Merge(Merge(state, [current_step |-> "extract"]), [current_step |-> "extract"])
           = [state EXCEPT !.current_step = "extract"]

\* C20: in both pipelines, when risk_assessor is about to run,
\* extraction_result is present, and when summariser is about to run,
\* extraction_result and risk_result are both present.
C20_UpstreamBeforeConsumer ==
    /\ pc = "risk_assessor" =>
           /\ Field("extraction_result") # None
           /\ Ran("clause_extractor")
    /\ pc = "summariser" =>
           /\ Field("extraction_result") # None
           /\ Field("risk_result") # None
           /\ Ran("risk_assessor")

C20_Witness ==
    /\ pipeline = "tools"
    /\ pc = "summariser"
    /\ Field("extraction_result") # None
    /\ Field("risk_result") # None
    /\ Last(trace) = "risk_assessor"

ParseSteps == {"parser", "parser_agent"}

\* The parse step has finished: a node after it is next, or the run is over.
ParseFinished ==
    pc \in {"clause_extractor", "risk_assessor", "summariser", "error_handler", END}

\* C21: parsed_text changes only in a parse step, only from absent to a
\* value, and only before clause_extractor has run, so it is written at
\* most once and no later node writes it; and once the parse step has
\* finished with parsed_text absent, current_step is "error".
C21_ParsedTextWrittenOnce ==
    [][ /\ Field("parsed_text")' # Field("parsed_text") =>
               /\ pc \in ParseSteps
               /\ Field("parsed_text") = None
               /\ ~Ran("clause_extractor")
        /\ (ParseFinished' /\ Field("parsed_text")' = None) => CurrentStep' = "error"
      ]_vars

C21_Witness ==
    /\ pipeline = "tools"
    /\ pc = END
    /\ CurrentStep = "complete"
    /\ Field("parsed_text") # None
    /\ Len(SelectSeq(trace, LAMBDA n : n = "parser_agent")) = 3

\* C22: once current_step is "error", error_message keeps the value the
\* first failing step gave it: no node that runs afterwards replaces or
\* clears it, so the final state shows that step's message.
C22_FirstErrorMessageKept ==
    [][ CurrentStep = "error" => Field("error_message")' = Field("error_message") ]_vars

\* The fields a failing step may write.
FailureFields == {"current_step", "error_message"}

\* The results an earlier step may have left.
EarlierResults == {"parsed_text", "document_metadata", "extraction_result", "risk_result"}

\* C23: when clause_extractor, risk_assessor or summariser ends with
\* current_step = "error", the transition changes no field but current_step
\* and error_message and the step's own result field is absent afterwards;
\* and a result field that has a value keeps it on every later transition,
\* so the final state has the earlier results as they were written.
C23_FailureKeepsEarlierResults ==
    [][ /\ (pc \in Steps /\ CurrentStep' = "error") =>
               /\ DOMAIN state' \ FailureFields = DOMAIN state \ FailureFields
               /\ \A k \in DOMAIN state \ FailureFields : state'[k] = state[k]
               /\ Get(state', ResultField[pc], None) = None
        /\ \A k \in EarlierResults : Field(k) # None => Field(k)' = Field(k)
      ]_vars

C23_Witness ==
    /\ pipeline = "main"
    /\ pc = END
    /\ trace = <<"parser", "clause_extractor", "risk_assessor", "summariser", "error_handler">>
    /\ CurrentStep = "error"
    /\ Field("parsed_text") # None
    /\ Field("document_metadata") # None
    /\ Field("extraction_result") # None
    /\ Field("risk_result") # None
    /\ Field("executive_summary") = None

Executions(node) == Len(SelectSeq(trace, LAMBDA n : n = node))

\* C25: in one run clause_extractor, risk_assessor, summariser and
\* error_handler, and parser in the main pipeline, each run at most once,
\* and each of them calls the generation client at most once per
\* execution, a failed call included.
C25_NoRetry ==
    \A node \in Steps \cup {"error_handler", "parser"} :
        /\ Executions(node) <= 1
        /\ Len(CallsBy(node)) <= Executions(node)

C25_Witness ==
    /\ pc = END
    /\ CurrentStep = "error"
    /\ Executions("clause_extractor") = 1
    /\ Executions("risk_assessor") = 1
    /\ Len(CallsBy("risk_assessor")) = 1
    /\ Field("risk_result") = None
    /\ Executions("summariser") = 0
    /\ Executions("error_handler") = 1

\* C26: no transition of either pipeline adds, removes or changes
\* file_path, so in every state it is what the initial state had.
C26_FilePathImmutable ==
    [][ /\ ("file_path" \in DOMAIN state') = ("file_path" \in DOMAIN state)
        /\ "file_path" \in DOMAIN state => state'.file_path = state.file_path
      ]_vars

C26_Witness ==
    /\ pipeline = "tools"
    /\ pc = END
    /\ CurrentStep = "complete"
    /\ "file_path" \in DOMAIN state
    /\ state.file_path = env.path
    /\ Executions("parser_agent") = 2

MessageLog == Get(state, "messages", <<>>)

\* C27: on every transition the old message log is a prefix of the new one,
\* and the log grows only when parser_agent or parser_tools runs.
C27_LogAppendOnly ==
    [][ /\ Len(MessageLog') >= Len(MessageLog)
        /\ SubSeq(MessageLog', 1, Len(MessageLog)) = MessageLog
        /\ MessageLog' # MessageLog => pc \in ParseLoop
      ]_vars

C27_Witness ==
    /\ pipeline = "tools"
    /\ pc = END
    /\ Len(MessageLog) = 5
    /\ Executions("parser_tools") = 2
    /\ Ran("summariser")

\* The destination maps of the nodes that have conditional edges.
Conditional == Graph(pipeline).conditional

\* C28: after every node with conditional edges, the key its routing
\* function returns for the state the node left is a key of that node's own
\* destination map and the run goes where the map says; yet route_after_step
\* has values, reached with some current_step, that a node's map lacks.
C28_RoutingKeyAlwaysMapped ==
    [][ /\ pc \in DOMAIN Conditional =>
               LET key == Router(pipeline, pc, state')
               IN  /\ key \in DOMAIN Conditional[pc]
                   /\ pc' # RAISED => pc' = Conditional[pc][key]
        /\ \E v \in StepValues, n \in DOMAIN Conditional :
               route_after_step([current_step |-> v]) \notin DOMAIN Conditional[n]
      ]_vars

C28_Witness ==
    /\ trace # <<>>
    /\ Last(trace) = "risk_assessor"
    /\ route_after_step(state) = "summariser"
    /\ "summariser" \in DOMAIN Conditional["risk_assessor"]
    /\ "summariser" \notin DOMAIN Conditional["clause_extractor"]
    /\ pc = "summariser"

ReasoningCalls == CallsBy("parser_agent")

LogRecordTypes == {"ai", "tool"}

\* C29: the first reasoning invocation is given the two seed messages and
\* none of them enters the log; every later invocation is given the log,
\* which holds ai and tool records only and starts with the first response,
\* an ai record that requests a tool.
C29_SeedNotInLog ==
    pipeline = "tools" =>
        /\ \A i \in 1..Len(MessageLog) : MessageLog[i].type \in LogRecordTypes
        /\ \A i \in 1..Len(ReasoningCalls) :
               LET input == ReasoningCalls[i].input
               IN  IF i = 1
                   THEN /\ input = SeedMessages(env.path)
                        /\ MessageLog # <<>> => MessageLog[1] \notin {input[1], input[2]}
                   ELSE /\ input # <<>>
                        /\ \A j \in 1..Len(input) : input[j].type \in LogRecordTypes
                        /\ input = SubSeq(MessageLog, 1, Len(input))
                        /\ input[1].type = "ai"
                        /\ input[1].tool_calls # <<>>

C29_Witness ==
    /\ pipeline = "tools"
    /\ pc = END
    /\ Len(ReasoningCalls) = 3
    /\ ReasoningCalls[1].input = SeedMessages(env.path)
    /\ Len(ReasoningCalls[3].input) = 4
    /\ MessageLog[1].type = "ai"

Invoked == \E i \in 1..Len(trace) : trace[i] = "invoke"

InvokeAt == CHOOSE i \in 1..Len(trace) : trace[i] = "invoke"

\* The nodes of the streamed run and of the invoked run.
FirstRun == SubSeq(trace, 1, InvokeAt - 1)
SecondRun == SubSeq(trace, InvokeAt + 1, Len(trace))

\* The analysis is over: the invoked run has ended, or an exception has
\* left the caller.
AnalysisOver == pc = RAISED \/ (pc = END /\ Invoked)

\* C30: an analysis of the verbose CLI or the web UI that is over has run
\* the pipeline from its entry twice; each execution of a step in either
\* run made its own call of the generation client; and the state rendered
\* is the one the second run ended with, whatever the first run did.
C30_AnalysisRunsTwice ==
    AnalysisOver =>
        /\ pc = END
        /\ Invoked
        /\ FirstRun # <<>> /\ Head(FirstRun) = "parser"
        /\ SecondRun # <<>> /\ Head(SecondRun) = "parser"
        /\ \A step \in Steps : Len(CallsBy(step)) = Executions(step)
        /\ Last(SecondRun) = "summariser" <=> CurrentStep = "complete"
        /\ Last(SecondRun) = "error_handler" <=> CurrentStep = "error"
        /\ \A step \in Steps :
               Field(ResultField[step]) # None =>
                   \E i \in 1..Len(SecondRun) : SecondRun[i] = step

\* Every field of the state but the input path and the message log.
FrameFields ==
    {"current_step", "error_message", "parsed_text", "document_metadata",
     "extraction_result", "risk_result", "executive_summary"}

\* The fields are as the initial state had them.
Untouched ==
    /\ CurrentStep = "parse"
    /\ \A k \in FrameFields \ {"current_step"} : Field(k) = None

\* C31: in the tool pipeline, a parser_agent invocation that is followed by
\* parser_tools and every parser_tools execution change no field but the
\* message log; while the parse loop runs the fields are as the initial
\* state had them, current_step still "parse", and the invocation that
\* leaves the loop is the first to write them.
C31_ParseLoopFrame ==
    [][ pipeline = "tools" =>
            /\ (pc = "parser_tools" \/ (pc = "parser_agent" /\ pc' = "parser_tools")) =>
                   /\ DOMAIN state' \ {"messages"} = DOMAIN state \ {"messages"}
                   /\ \A k \in DOMAIN state \ {"messages"} : state'[k] = state[k]
            /\ pc \in ParseLoop => Untouched
            /\ (pc = "parser_agent" /\ pc' \notin ParseLoop \cup {RAISED}) =>
                   CurrentStep' \in {"extract", "error"}
      ]_vars

C31_Witness ==
    /\ pipeline = "tools"
    /\ pc = "parser_agent"
    /\ Executions("parser_tools") = 2
    /\ Len(MessageLog) = 4
    /\ Untouched

\* The run has terminated: the graph reached its end.
Terminated == pc = END

\* C32: in every terminated run of either pipeline the final current_step
\* is "complete" or "error"; error_handler was executed if and only if it
\* is "error"; and error_handler was executed at most once, as the last
\* node of the run.
C32_TerminalsAgreeWithState ==
    Terminated =>
        /\ CurrentStep \in {"complete", "error"}
        /\ Ran("error_handler") <=> CurrentStep = "error"
        /\ Executions("error_handler") <= 1
        /\ Ran("error_handler") => Last(trace) = "error_handler"

C32_Witness ==
    /\ Terminated
    /\ pipeline = "tools"
    /\ CurrentStep = "error"
    /\ Executions("error_handler") = 1
    /\ Last(trace) = "error_handler"
    /\ Ran("risk_assessor")

\* What the extraction backend does with the file of this run.
Backend == pdf_parser_parse_pdf(env.path, env)

\* The step taken is the main pipeline's parser.
ParserRuns == pipeline = "main" /\ pc = "parser"

\* The exceptions of the parser other than FileNotFoundError: the missing
\* file_path key, a failure of the backend, a failure of the generation
\* client (it was called and no text was stored).
MissingKey == "file_path" \notin DOMAIN state
BackendFailed == ~MissingKey /\ Backend.exc = "Exception"
ClientFailed ==
    ~MissingKey /\ llm_log' # llm_log /\ Get(state', "parsed_text", None) = None

\* The patch of the parser for an empty text, a missing file, and the
\* exceptions in the set other.
ParserFailurePatches(other) ==
    ParserRuns =>
        /\ (~MissingKey /\ Backend.exc = "" /\ Strip(Backend.ret.full_text) = <<>>) =>
               /\ CurrentStep' = "error"
               /\ "parsed_text" \in DOMAIN state' /\ state'.parsed_text = None
               /\ state'.document_metadata = Some(Backend.ret.metadata)
               /\ state'.error_message # None
               /\ state'.error_message[1] # <<>>
               /\ llm_log' = llm_log
        /\ (~MissingKey /\ Backend.exc = "FileNotFoundError") =>
               /\ CurrentStep' = "error"
               /\ state'.error_message = Some(<<"PDF not found: ", env.path>>)
               /\ llm_log' = llm_log
        /\ other =>
               /\ pc' # RAISED
               /\ CurrentStep' = "error"
               /\ state'.error_message # None
               /\ Take(state'.error_message[1], 1) = <<"Parser failed: ">>

\* C33: in the main pipeline's parser, an empty or whitespace-only text from
\* the backend gives current_step = "error", no parsed_text, the backend's
\* metadata, a non-empty error_message and no call of the generation
\* client; a missing file gives current_step = "error" with the backend's
\* message unprefixed; any other exception gives an error_message that
\* begins with "Parser failed".
C33_ParserFailurePatches ==
    [][ParserFailurePatches(MissingKey \/ BackendFailed \/ ClientFailed)]_vars

====
